---- MODULE Spec2Model ----
(***************************************************************************)
(* A model of scripts/fixer.py (poefixer): the note parser, the weighted   *)
(* currency summary, the two-hop value resolver, the sale recorder and the *)
(* checkpointed batch loop of CurrencyFixer.                               *)
(*                                                                         *)
(* Representation                                                          *)
(*   - a note is a sequence of one-character strings; None is NoneNote;    *)
(*   - a number (a Python float / SQL double) is an exact rational <<n,d>> *)
(*     with d > 0 in lowest terms; an absent number (None) is <<>>;        *)
(*   - an absent currency name is the string NoneStr;                      *)
(*   - an absent timestamp is 0 (all timestamps of the model are >= 1, and *)
(*     the code tests the checkpoint by truthiness);                       *)
(*   - the sale and currency_summary tables are bags of records: a table   *)
(*     can hold two rows that agree in every column but the surrogate key  *)
(*     `id`, which only tells such rows apart and is left out.             *)
(***************************************************************************)
EXTENDS Integers, Sequences, FiniteSets, Bags, TLC

VARIABLES
    items,        \* the Item |x| Stash join: item id -> listing row
    sales,        \* the sale table as the session sees it
    summary,      \* the currency_summary table as the session sees it
    committed,    \* [sales, summary] as of the last commit
    clock,        \* time.time()
    pc,           \* position of do_currency_fixer
    offset,       \* do_currency_fixer: offset
    count,        \* do_currency_fixer: count
    block,        \* the rows of query.all() for the current block
    raised,       \* the exception that left the last call, or "none"
    call,         \* the last call made and what it returned (observation)
    hist          \* what the runs have done so far (observation)

vars == <<items, sales, summary, committed, clock, pc, offset, count, block,
          raised, call, hist>>

-----------------------------------------------------------------------------
(* Bounds of the model *)

NItems == 3       \* listing rows in the store
BlockSize == 2    \* stands for block_size = 1000: rows per block
MaxRuns == 2      \* runs of do_currency_fixer in a behaviour
MaxUpdates == 1   \* listing changes in a behaviour
MaxCount == 2     \* largest sample count of a stored pair (resolver)

-----------------------------------------------------------------------------
(* Exact rational arithmetic standing for the floats of the program *)

Abs(x) == IF x < 0 THEN -x ELSE x

RECURSIVE GCD(_, _)
GCD(a, b) == IF b = 0 THEN a ELSE GCD(b, a % b)

Rat(n, d) ==
    LET g == GCD(Abs(n), Abs(d))
        s == IF d < 0 THEN -1 ELSE 1
    IN  <<(s * n) \div g, (s * d) \div g>>

RInt(n) == <<n, 1>>
RAdd(a, b) == Rat(a[1] * b[2] + b[1] * a[2], a[2] * b[2])
RSub(a, b) == Rat(a[1] * b[2] - b[1] * a[2], a[2] * b[2])
RMul(a, b) == Rat(a[1] * b[1], a[2] * b[2])
RDiv(a, b) == Rat(a[1] * b[2], a[2] * b[1])
RLess(a, b) == a[1] * b[2] < b[1] * a[2]
RMax(a, b) == IF RLess(a, b) THEN b ELSE a
RZero == RInt(0)
ROne == RInt(1)

None == <<>>
NoneStr == "None"
NoneNote == <<"None">>

Min(a, b) == IF a < b THEN a ELSE b

-----------------------------------------------------------------------------
(* parse_note *)

ChaosOrb == "Chaos Orb"
Exalted == "Exalted Orb"
Alchemy == "Orb of Alchemy"
Divine == "Divine Orb"

\* the `currencies` table of parse_note: short code -> display name
currencies ==
    { <<(<<"a","l","c","h">>), "Orb of Alchemy">>,
      <<(<<"a","l","t">>), "Orb of Alteration">>,
      <<(<<"b","l","e","s","s","e","d">>), "Blessed Orb">>,
      <<(<<"c","h","a","n","c","e">>), "Orb of Chance">>,
      <<(<<"c","h","a","o","s">>), ChaosOrb>>,
      <<(<<"c","h","i","s","e","l">>), "Cartographer's Chisel">>,
      <<(<<"c","h","r","o","m">>), "Chromatic Orb">>,
      <<(<<"d","i","v","i","n","e">>), "Divine Orb">>,
      <<(<<"e","x","a">>), "Exalted Orb">>,
      <<(<<"f","u","s","e">>), "Orb of Fusing">>,
      <<(<<"g","c","p">>), "Gemcutter's Prism">>,
      <<(<<"j","e","w">>), "Jeweller's Orb">>,
      <<(<<"r","e","g","a","l">>), "Regal Orb">>,
      <<(<<"r","e","g","r","e","t">>), "Orb of Regret">>,
      <<(<<"s","c","o","u","r">>), "Orb of Scouring">>,
      <<(<<"v","a","a","l">>), "Vaal Orb">> }

Digits == {"0", "1", "2", "3", "4", "5", "6", "7", "8", "9"}

DigitVal(c) ==
    CASE c = "0" -> 0 [] c = "1" -> 1 [] c = "2" -> 2 [] c = "3" -> 3
      [] c = "4" -> 4 [] c = "5" -> 5 [] c = "6" -> 6 [] c = "7" -> 7
      [] c = "8" -> 8 [] c = "9" -> 9

Letters ==
    {"a", "b", "c", "d", "e", "f", "g", "h", "i", "j", "k", "l", "m", "n",
     "o", "p", "q", "r", "s", "t", "u", "v", "w", "x", "y", "z"}

\* the character classes \s, \S and \w of PRICE_RE
IsSpace(c) == c = " "
IsWord(c) == c \in Digits \cup Letters \cup {"_"}

\* does the sequence w occur in s at position i
At(s, i, w) ==
    /\ i + Len(w) - 1 <= Len(s)
    /\ \A k \in 1..Len(w) : s[i + k - 1] = w[k]

\* the end (exclusive) of the longest run from i of characters satisfying
\* the class: "s" white space, "S" non-space, "w" word
InClass(c, cls) ==
    CASE cls = "s" -> IsSpace(c)
      [] cls = "S" -> ~IsSpace(c)
      [] cls = "w" -> IsWord(c)

RECURSIVE RunEnd(_, _, _)
RunEnd(s, i, cls) ==
    IF i <= Len(s) /\ InClass(s[i], cls) THEN RunEnd(s, i + 1, cls) ELSE i

\* PRICE_RE = \~(price|b\/o)\s+(\S+) (\w+) tried at position i: the groups
\* (amt, currency) of the match, or None when it does not match there.
\* j is the first position after the marker, k the end of the greedy \s+,
\* m the end of the greedy (\S+), e the end of the greedy (\w+).
MatchEnd(s, j, k, m, e) ==
    IF k > j /\ m > k /\ m <= Len(s) /\ s[m] = " " /\ e > m + 1
    THEN <<SubSeq(s, k, m - 1), SubSeq(s, m + 1, e - 1)>>
    ELSE None

MatchCurrency(s, j, k, m) == MatchEnd(s, j, k, m, RunEnd(s, m + 1, "w"))
MatchAmount(s, j, k) == MatchCurrency(s, j, k, RunEnd(s, k, "S"))
MatchSpaces(s, j) == MatchAmount(s, j, RunEnd(s, j, "s"))

MatchAt(s, i) ==
    IF ~(i <= Len(s) /\ s[i] = "~") THEN None
    ELSE IF At(s, i + 1, <<"p", "r", "i", "c", "e">>) THEN MatchSpaces(s, i + 6)
    ELSE IF At(s, i + 1, <<"b", "/", "o">>) THEN MatchSpaces(s, i + 4)
    ELSE None

\* PRICE_RE.search: the leftmost position where the pattern matches
RECURSIVE SearchFrom(_, _)
OrSearch(g, s, i) == IF g # None THEN g ELSE SearchFrom(s, i + 1)
SearchFrom(s, i) == IF i > Len(s) THEN None ELSE OrSearch(MatchAt(s, i), s, i)

PriceSearch(s) == SearchFrom(s, 1)

\* float(str) for the literals of the model: digits with at most one ".",
\* at least one digit.  None stands for ValueError ("could not convert
\* string to float").
RECURSIVE DigitsVal(_, _)
DigitsVal(s, acc) ==
    IF s = <<>> THEN acc ELSE DigitsVal(Tail(s), 10 * acc + DigitVal(Head(s)))

RECURSIVE Pow10(_)
Pow10(n) == IF n = 0 THEN 1 ELSE 10 * Pow10(n - 1)

FloatAt(s, ds, dots) ==
    IF \/ Cardinality(dots) > 1
       \/ ds = <<>>
       \/ \E i \in 1..Len(ds) : ds[i] \notin Digits
    THEN None
    ELSE IF dots = {} THEN RInt(DigitsVal(ds, 0))
    ELSE Rat(DigitsVal(ds, 0), Pow10(Len(s) - (CHOOSE i \in dots : TRUE)))

Float(s) ==
    FloatAt(s, SelectSeq(s, LAMBDA c : c # "."), {i \in 1..Len(s) : s[i] = "."})

\* str.split('/', 1)
SplitAt(s, p) == <<SubSeq(s, 1, p - 1), SubSeq(s, p + 1, Len(s))>>
SplitSlash(s) ==
    SplitAt(s, CHOOSE i \in 1..Len(s) :
                   s[i] = "/" /\ \A k \in 1..(i - 1) : s[k] # "/")

HasSlash(s) == \E i \in 1..Len(s) : s[i] = "/"

Parsed(a, c, x) == [amt |-> a, cur |-> c, exc |-> x]
NoPrice == Parsed(None, NoneStr, "none")

\* lines 89-90: `if currency in currencies: return (amt, currencies[currency])`
Known(code) == {e \in currencies : e[1] = code}
ParseCurrency(v, code) ==
    IF Known(code) = {} THEN NoPrice
    ELSE Parsed(v, (CHOOSE e \in Known(code) : TRUE)[2], "none")

\* lines 87-88: amt = float(amt)
ParseAmount(v, code) == IF v = None THEN NoPrice ELSE ParseCurrency(v, code)

\* lines 85-86: amt = float(num) / float(den)
ParseQuotient(num, den, code) ==
    IF num = None \/ den = None THEN NoPrice
    ELSE IF den = RZero THEN Parsed(None, NoneStr, "ZeroDivisionError")
    ELSE ParseCurrency(RDiv(num, den), code)

ParseFraction(nd, code) == ParseQuotient(Float(nd[1]), Float(nd[2]), code)

ParseGroups(amt, code) ==
    IF HasSlash(amt) THEN ParseFraction(SplitSlash(amt), code)
    ELSE ParseAmount(Float(amt), code)

ParseMatch(g) == IF g = None THEN NoPrice ELSE ParseGroups(g[1], g[2])

\* parse_note(note): the pair returned, or the exception that leaves it.
\* A ValueError of float() is caught (lines 91-94) and gives (None, None).
parse_note(note) ==
    IF note = NoneNote THEN NoPrice ELSE ParseMatch(PriceSearch(note))

-----------------------------------------------------------------------------
(* _update_currency_summary *)

\* `unit = 24*60*60`: seconds before a value begins to decay
unit == 86400

\* the rows of table b that satisfy P, and a table with every row r of b
\* replaced by g[r]
Select(b, P(_)) == [r \in {x \in DOMAIN b : P(x)} |-> b[r]]

RECURSIVE ISum(_, _)
ISum(S, f) ==
    IF S = {} THEN 0
    ELSE LET x == CHOOSE y \in S : TRUE
         IN  f[x] + ISum(S \ {x}, f)

Replace(b, g) ==
    [y \in {g[x] : x \in DOMAIN b} |->
        ISum({x \in DOMAIN b : g[x] = y}, b)]

\* SUM(f) over the rows of table b
RECURSIVE RSum(_, _)
RSum(b, f) ==
    IF DOMAIN b = {} THEN RZero
    ELSE LET x == CHOOSE y \in DOMAIN b : TRUE
         IN  RAdd(RMul(RInt(b[x]), f[x]),
                  RSum([y \in DOMAIN b \ {x} |-> b[y]], f))

\* weight_query: GREATEST(1, (1.0/GREATEST(1, :now - sale2.updated_at)) * :unit)
Weight(sale, now) ==
    LET age == now - sale.updated_at
        a == IF age < 1 THEN 1 ELSE age
    IN  RMax(ROne, RMul(Rat(1, a), RInt(unit)))

\* the rows of `sale` that both selects read
PairSales(ss, name, currency) ==
    Select(ss, LAMBDA s : s.name = name /\ s.sale_currency = currency)

\* weighted_mean_select: SUM(sale_amount * weight) / GREATEST(1, SUM(weight))
\* over the rows of the pair
WeightedMean(rows, now) ==
    RDiv(RSum(rows, [s \in DOMAIN rows |-> RMul(s.sale_amount, Weight(s, now))]),
         RMax(ROne, RSum(rows, [s \in DOMAIN rows |-> Weight(s, now)])))

\* weighted_stddev_select without its SQRT (a rational has no square root
\* in general): SUM(w * POW(amount - mean, 2)) / ((rows * SUM(w)) / rows);
\* None (NULL) when the divisor is 0
Quotient(a, b) == IF b = RZero THEN None ELSE RDiv(a, b)
WeightedVariance(rows, now, mean, count_rows) ==
    Quotient(RSum(rows, [s \in DOMAIN rows |->
                 RMul(Weight(s, now),
                      RMul(RSub(s.sale_amount, mean), RSub(s.sale_amount, mean)))]),
             RDiv(RMul(RInt(count_rows),
                       RSum(rows, [s \in DOMAIN rows |-> Weight(s, now)])),
                  RInt(count_rows)))

SummaryRows(sm, from, to) ==
    Select(sm, LAMBDA r : r.from_currency = from /\ r.to_currency = to)

\* the one row of a table that holds a single row (one_or_none, first)
TheRow(b) == CHOOSE r \in DOMAIN b : TRUE

\* lines 224-240: the update in place or the insert
StoreSummary(sm, name, currency, count_rows, weighted_mean, variance) ==
    IF variance = None THEN sm
    ELSE IF SummaryRows(sm, name, currency) # EmptyBag
    THEN Replace(sm, [r \in DOMAIN sm |->
             IF r.from_currency = name /\ r.to_currency = currency
             THEN [r EXCEPT !.count = count_rows,
                            !.mean = weighted_mean,
                            !.variance = variance]
             ELSE r])
    ELSE sm (+) SetToBag({[from_currency |-> name,
                           to_currency |-> currency,
                           count |-> count_rows,
                           mean |-> weighted_mean,
                           variance |-> variance]})

SummaryWithMean(sm, name, currency, now, rows, weighted_mean) ==
    StoreSummary(sm, name, currency, BagCardinality(rows), weighted_mean,
                 WeightedVariance(rows, now, weighted_mean, BagCardinality(rows)))

SummaryOf(sm, name, currency, now, rows) ==
    IF BagCardinality(rows) = 0 THEN sm
    ELSE SummaryWithMean(sm, name, currency, now, rows, WeightedMean(rows, now))

\* _update_currency_summary(name, currency, price, sale_time): the
\* currency_summary table afterwards
update_currency_summary(ss, sm, name, currency, sale_time) ==
    SummaryOf(sm, name, currency, sale_time, PairSales(ss, name, currency))

-----------------------------------------------------------------------------
(* _find_value_of *)

\* the rows `query.all()` may enumerate: every ordering of the pairs from
\* `name` by descending count (rows of equal count come in either order)
IsListOf(ord, b) ==
    \A r \in DOMAIN b : Cardinality({i \in 1..Len(ord) : ord[i] = r}) = b[r]

Enumerations(sm, name) ==
    LET b == Select(sm, LAMBDA r : r.from_currency = name)
    IN  {ord \in [1..BagCardinality(b) -> DOMAIN b] :
            /\ IsListOf(ord, b)
            /\ \A i \in 1..(Len(ord) - 1) : ord[i].count >= ord[i + 1].count}

\* a loop that lets a later path of equal score replace the best one
RECURSIVE ScanLastWins(_, _, _, _, _)
ScanLastWins(sm, ord, i, hs, conv) ==
    IF i > Len(ord) THEN <<hs, conv>>
    ELSE IF ord[i].to_currency = ChaosOrb THEN <<hs, conv>>
    ELSE IF SummaryRows(sm, ord[i].to_currency, ChaosOrb) = EmptyBag
    THEN ScanLastWins(sm, ord, i + 1, hs, conv)
    ELSE IF Min(ord[i].count,
                TheRow(SummaryRows(sm, ord[i].to_currency, ChaosOrb)).count) >= hs
    THEN ScanLastWins(sm, ord, i + 1,
                      Min(ord[i].count,
                          TheRow(SummaryRows(sm, ord[i].to_currency, ChaosOrb)).count),
                      RMul(ord[i].mean,
                           TheRow(SummaryRows(sm, ord[i].to_currency, ChaosOrb)).mean))
    ELSE ScanLastWins(sm, ord, i + 1, hs, conv)

\* the `for row in query.all()` loop from row i on, with high_score hs
\* (0 for None) and conversion conv: the final <<high_score, conversion>>
RECURSIVE Scan(_, _, _, _, _)
Scan(sm, ord, i, hs, conv) ==
    IF i > Len(ord) THEN <<hs, conv>>
    ELSE LET row == ord[i]
             target == row.to_currency
             row2s == SummaryRows(sm, target, ChaosOrb)
         IN  IF target = ChaosOrb
             THEN IF hs # 0 /\ row.count >= hs
                  THEN <<row.count, row.mean>>
                  ELSE <<hs, conv>>
             ELSE IF row2s = EmptyBag THEN Scan(sm, ord, i + 1, hs, conv)
             ELSE LET row2 == TheRow(row2s)
                      score == Min(row.count, row2.count)
                  IN  IF hs = 0 \/ score > hs
                      THEN Scan(sm, ord, i + 1, score, RMul(row.mean, row2.mean))
                      ELSE Scan(sm, ord, i + 1, hs, conv)

\* a resolver without the early return for the canonical unit
find_value_of_NoUnit(sm, name, price, ord) ==
    IF Scan(sm, ord, 1, 0, None)[1] # 0
    THEN RMul(Scan(sm, ord, 1, 0, None)[2], price)
    ELSE IF SummaryRows(sm, ChaosOrb, name) # EmptyBag
    THEN RDiv(ROne, TheRow(SummaryRows(sm, ChaosOrb, name)).mean)
    ELSE None

\* _find_value_of(name, price) when the first query enumerates `ord`
find_value_of(sm, name, price, ord) ==
    IF name = ChaosOrb THEN price
    ELSE LET r == Scan(sm, ord, 1, 0, None)
             rev == SummaryRows(sm, ChaosOrb, name)
         IN  IF r[1] # 0 THEN RMul(r[2], price)
             ELSE IF rev # EmptyBag THEN RDiv(ROne, TheRow(rev).mean)
             ELSE None

-----------------------------------------------------------------------------
(* _process_sale *)

StartsWithTilde(s) == Len(s) >= 1 /\ s[1] = "~"

\* lines 309-311: "pass", "skip", or the AttributeError of None.startswith
Gate(row) ==
    IF row.note # NoneNote /\ row.note # <<>> /\ StartsWithTilde(row.note)
    THEN "pass"
    ELSE IF row.stash = NoneNote THEN "AttributeError"
    ELSE IF StartsWithTilde(row.stash) THEN "pass"
    ELSE "skip"

IsCurrency(row) == "currency" \in row.category

SaleName(row) ==
    IF IsCurrency(row) THEN row.typeLine ELSE row.name \o " " \o row.typeLine

\* a precedence that also falls back to the stash price when the item note
\* is priced at zero
PriceOfNonZero(st, it) ==
    IF st.exc # "none" THEN st
    ELSE IF it.exc # "none" THEN it
    ELSE IF it.amt = None \/ it.amt = RZero THEN st
    ELSE it

\* lines 319-325: the stash note is parsed first, then the item note, and
\* the stash price is used when the item note gives none
PriceOf(st, it) ==
    IF st.exc # "none" THEN st
    ELSE IF it.exc # "none" THEN it
    ELSE IF it.amt = None THEN st
    ELSE it

ResolvePrice(row) == PriceOf(parse_note(row.stash), parse_note(row.note))

ItemSales(ss, id) == Select(ss, LAMBDA s : s.item_id = id)

\* lines 334-358: the sale table after the insert or the update in place
UpsertOver(ss, existing, row, price, currency, now) ==
    IF existing = EmptyBag
    THEN ss (+) SetToBag({[item_id |-> row.id,
                           name |-> SaleName(row),
                           is_currency |-> IsCurrency(row),
                           sale_currency |-> currency,
                           sale_amount |-> price,
                           sale_amount_chaos |-> None,
                           created_at |-> now,
                           item_updated_at |-> row.updated_at,
                           updated_at |-> now]})
    ELSE (ss (-) existing) (+)
         SetToBag({[TheRow(existing) EXCEPT
                       !.sale_currency = currency,
                       !.sale_amount = price,
                       !.sale_amount_chaos = None,
                       !.item_updated_at = row.updated_at,
                       !.updated_at = now]})

\* a recorder that never looks for the record of the item
UpsertInsertOnly(ss, row, price, currency, now) ==
    UpsertOver(ss, EmptyBag, row, price, currency, now)

\* a recorder that drops the record of an item it observes again
UpsertOrDrop(ss, row, price, currency, now) ==
    IF ItemSales(ss, row.id) = EmptyBag
    THEN UpsertOver(ss, EmptyBag, row, price, currency, now)
    ELSE ss (-) ItemSales(ss, row.id)

Upsert(ss, row, price, currency, now) ==
    UpsertOver(ss, ItemSales(ss, row.id), row, price, currency, now)

\* a pricing step that feeds every sale into the statistics
update_every_pricing(ss, sm, name, currency, sale_time, is_currency) ==
    update_currency_summary(ss, sm, name, currency, sale_time)

\* _update_currency_pricing, first half: the summary table afterwards
update_currency_pricing(ss, sm, name, currency, sale_time, is_currency) ==
    IF is_currency
    THEN update_currency_summary(ss, sm, name, currency, sale_time)
    ELSE sm

Outcome(ss, sm, x, what, chaos) ==
    [sales |-> ss, summary |-> sm, exc |-> x, what |-> what, chaos |-> chaos]

\* the listing rows _currency_query lets through (lines 119-127): a public
\* stash, and a non-empty item note or a non-empty stash note
NonEmpty(note) == note # NoneNote /\ note # <<>>
Visible(row) == row.public /\ (NonEmpty(row.note) \/ NonEmpty(row.stash))

\* lines 363-369: the canonical value is written to the record of the row
Valued(ss, sm, row, amount_chaos) ==
    Outcome(IF amount_chaos = None THEN ss
            ELSE Replace(ss, [s \in DOMAIN ss |->
                     IF s.item_id = row.id
                     THEN [s EXCEPT !.sale_amount_chaos = amount_chaos]
                     ELSE s]),
            sm, "none", "sale", amount_chaos)

\* line 153, once for each order in which _find_value_of may enumerate
Priced(ss, sm, row, p) ==
    {Valued(ss, sm, row, find_value_of(sm, p.cur, p.amt, ord)) :
        ord \in Enumerations(sm, p.cur)}

\* lines 360-361 on the flushed sale table
Flushed(ss, sm, row, p) ==
    Priced(ss,
           update_currency_pricing(ss, sm, SaleName(row), p.cur,
                                   row.updated_at, IsCurrency(row)),
           row, p)

\* lines 326-358; one_or_none raises when the item has several records
Recorded(ss, sm, row, now, p) ==
    IF p.exc # "none" THEN {Outcome(ss, sm, p.exc, "raise", None)}
    ELSE IF p.amt = None \/ p.amt = RZero
    THEN {Outcome(ss, sm, "none", "noprice", None)}
    ELSE IF BagCardinality(ItemSales(ss, row.id)) > 1
    THEN {Outcome(ss, sm, "MultipleResultsFound", "raise", None)}
    ELSE Flushed(Upsert(ss, row, p.amt, p.cur, now), sm, row, p)

Gated(ss, sm, row, now, gate) ==
    IF gate = "AttributeError" THEN {Outcome(ss, sm, gate, "raise", None)}
    ELSE IF gate = "skip" THEN {Outcome(ss, sm, "none", "nosale", None)}
    ELSE Recorded(ss, sm, row, now, ResolvePrice(row))

\* _process_sale(row) at time `now` on the tables (ss, sm): the possible
\* outcomes
process_sale(ss, sm, row, now) == Gated(ss, sm, row, now, Gate(row))

-----------------------------------------------------------------------------
(* The notes and items of the model *)

Sp == <<" ">>
TildePrice == <<"~", "p", "r", "i", "c", "e">>
TildeBo == <<"~", "b", "/", "o">>
WChaos == <<"c", "h", "a", "o", "s">>
WExa == <<"e", "x", "a">>

NPrice2Chaos == TildePrice \o Sp \o <<"2">> \o Sp \o WChaos      \* "~price 2 chaos"
NBo3Exa == TildeBo \o Sp \o <<"3">> \o Sp \o WExa                \* "~b/o 3 exa"
NFraction == TildePrice \o Sp \o <<"4", "/", "2">> \o Sp \o WChaos  \* "~price 4/2 chaos"
NZeroDen == TildePrice \o Sp \o <<"1", "/", "0">> \o Sp \o WChaos   \* "~price 1/0 chaos"
NBadAmount == TildePrice \o Sp \o <<"x">> \o Sp \o WChaos        \* "~price x chaos"
NUnknown == TildePrice \o Sp \o <<"3">> \o Sp \o <<"z", "o", "r", "k">>  \* "~price 3 zork"
NZeroPrice == TildePrice \o Sp \o <<"0">> \o Sp \o WChaos        \* "~price 0 chaos"
NPrice6Chaos == TildePrice \o Sp \o <<"6">> \o Sp \o WChaos      \* "~price 6 chaos"
NHello == <<"h", "e", "l", "l", "o">>                            \* "hello"
NTildeOnly == <<"~", "s", "k", "i", "p">>                        \* "~skip"
NEmpty == <<>>                                                   \* ""

ItemNotes ==
    {NPrice2Chaos, NBo3Exa, NFraction, NZeroDen, NBadAmount, NUnknown,
     NZeroPrice, NHello, NTildeOnly, NEmpty, NoneNote}

StashNotes == {NoneNote, NEmpty, NBo3Exa, NHello}

\* the notes of the rows given to _process_sale: one note for each way
\* through lines 309-328
RowItemNotes ==
    {NPrice2Chaos, NBo3Exa, NZeroDen, NBadAmount, NZeroPrice, NHello, NoneNote}
RowStashNotes == {NoneNote, NBo3Exa, NHello}

\* item i of the model: its typeLine, name and category
ItemType(i) ==
    CASE i % 3 = 1 -> [typeLine |-> Exalted, name |-> "", category |-> {"currency"}]
      [] i % 3 = 2 -> [typeLine |-> "Simple Robe", name |-> "Tabula Rasa",
                       category |-> {"armour"}]
      [] i % 3 = 0 -> [typeLine |-> ChaosOrb, name |-> "", category |-> {"currency"}]

Row(i, note, stash, public, t) ==
    [id |-> i, typeLine |-> ItemType(i).typeLine, name |-> ItemType(i).name,
     category |-> ItemType(i).category, note |-> note, stash |-> stash,
     public |-> public, updated_at |-> t]

-----------------------------------------------------------------------------
(* get_last_processed_time, _currency_query *)

RECURSIVE MaxOf(_)
MaxOf(S) ==
    IF S = {} THEN 0
    ELSE LET x == CHOOSE y \in S : TRUE
             m == MaxOf(S \ {x})
         IN  IF x > m THEN x ELSE m

\* get_last_processed_time: the largest item_updated_at of the sale table,
\* 0 (None) when the table is empty
get_last_processed_time(ss) == MaxOf({r.item_updated_at : r \in DOMAIN ss})

\* a query without its ORDER BY: the rows come in key order
RECURSIVE OrderedByKey(_)
OrderedByKey(S) ==
    IF S = {} THEN <<>>
    ELSE <<CHOOSE r \in S : \A q \in S : r.id <= q.id>>
         \o OrderedByKey(S \ {CHOOSE r \in S : \A q \in S : r.id <= q.id})

\* ORDER BY updated_at; rows of equal updated_at come in key order
RECURSIVE Ordered(_)
Ordered(S) ==
    IF S = {} THEN <<>>
    ELSE LET first == CHOOSE r \in S : \A q \in S :
                          \/ r.updated_at < q.updated_at
                          \/ r.updated_at = q.updated_at /\ r.id <= q.id
         IN  <<first>> \o Ordered(S \ {first})

\* _currency_query(block_size, offset).all(), on the listing table tbl and
\* the sale table ss
currency_query(tbl, ss, block_size, off) ==
    LET processed_time == get_last_processed_time(ss)
        rows == {tbl[i] : i \in DOMAIN tbl}
        hits == {r \in rows :
                    /\ Visible(r)
                    /\ processed_time # 0 => r.updated_at >= processed_time}
        all == Ordered(hits)
    IN  SubSeq(all, off + 1, Min(Len(all), off + block_size))

-----------------------------------------------------------------------------
(* do_currency_fixer *)

NoCall == [op |-> "none"]

BatchNotes == {NPrice2Chaos, NBo3Exa, NHello, NZeroDen, NEmpty}

NoHist ==
    [runs |-> 0,            \* runs started
     updates |-> 0,         \* listing changes so far
     cp0 |-> 0,             \* the checkpoint at the start of this run
     processed |-> <<>>,    \* ids given to _process_sale in this run, in order
     fetched |-> 0,         \* rows fetched in this run
     done |-> {},           \* ids of the blocks this run has committed
     after |-> "nothing",   \* how the run before this one ended
     changed |-> FALSE,     \* a listing changed between that run and this one
     dirty |-> FALSE,       \* a listing changed since this run
     prevDone |-> {},       \* `done` of the run before this one
     prevCp0 |-> 0,         \* `cp0` of the run before this one
     start |-> [sales |-> EmptyBag, summary |-> EmptyBag],
                            \* the committed tables when this run started
     prevStart |-> [sales |-> EmptyBag, summary |-> EmptyBag]]
                            \* and when the run before this one started

Init ==
    /\ items \in {tbl \in [1..NItems -> {Row(i, n, NEmpty, TRUE, i) :
                                           i \in 1..NItems, n \in BatchNotes}] :
                     \A i \in 1..NItems : tbl[i].id = i}
    /\ sales = EmptyBag
    /\ summary = EmptyBag
    /\ committed = [sales |-> EmptyBag, summary |-> EmptyBag]
    /\ clock = NItems
    /\ pc = "Idle"
    /\ offset = 0
    /\ count = 0
    /\ block = <<>>
    /\ raised = "none"
    /\ call = NoCall
    /\ hist = NoHist

Between == pc \in {"Idle", "Done", "Aborted"}

\* do_currency_fixer is entered: offset = 0, count = 0, todo = True
StartRun ==
    /\ Between
    /\ hist.runs < MaxRuns
    /\ pc' = "Fetching"
    /\ offset' = 0
    /\ count' = 0
    /\ block' = <<>>
    /\ raised' = "none"
    /\ call' = NoCall
    /\ hist' = [hist EXCEPT !.runs = @ + 1,
                            !.cp0 = get_last_processed_time(sales),
                            !.processed = <<>>,
                            !.fetched = 0,
                            !.done = {},
                            !.after = IF pc = "Idle" /\ hist.runs = 0 THEN "nothing"
                                      ELSE IF pc = "Done" THEN "done"
                                      ELSE IF pc = "Aborted" THEN "abort"
                                      ELSE "crash",
                            !.changed = hist.dirty,
                            !.dirty = FALSE,
                            !.prevDone = hist.done,
                            !.prevCp0 = hist.cp0,
                            !.start = [sales |-> sales, summary |-> summary],
                            !.prevStart = hist.start]
    /\ UNCHANGED <<items, sales, summary, committed, clock>>

\* line 414 and the query.all() of line 420
Fetch ==
    /\ pc = "Fetching"
    /\ block' = currency_query(items, sales, BlockSize, offset)
    /\ count' = 0
    /\ pc' = "Processing"
    /\ hist' = [hist EXCEPT !.fetched = @ + Len(block')]
    /\ UNCHANGED <<items, sales, summary, committed, clock, offset, raised, call>>

\* one turn of the loop of lines 420-426.  An exception leaves
\* do_currency_fixer and the process: what the block wrote is never committed.
ProcessRow ==
    /\ pc = "Processing"
    /\ count < Len(block)
    /\ LET row == block[count + 1]
       IN  \E out \in process_sale(sales, summary, row, clock) :
               /\ count' = count + 1
               /\ raised' = out.exc
               /\ call' = [op |-> "process_sale", row |-> row, what |-> out.what,
                           chaos |-> out.chaos,
                           existed |-> \E r \in DOMAIN sales : r.item_id = row.id]
               /\ hist' = [hist EXCEPT !.processed = Append(@, row.id)]
               /\ IF out.exc = "none"
                  THEN /\ sales' = out.sales
                       /\ summary' = out.summary
                       /\ pc' = "Processing"
                  ELSE /\ sales' = committed.sales
                       /\ summary' = committed.summary
                       /\ pc' = "Aborted"
    /\ UNCHANGED <<items, committed, clock, offset, block>>

\* a commit that does not wait for the last row of the block
CommitPartial ==
    /\ pc = "Processing"
    /\ count >= 1
    /\ offset' = offset + count
    /\ committed' = [sales |-> sales, summary |-> summary]
    /\ pc' = IF count = BlockSize THEN "Fetching" ELSE "Done"
    /\ hist' = [hist EXCEPT !.done = @ \cup {block[k].id : k \in 1..count}]
    /\ UNCHANGED <<items, sales, summary, clock, count, block, raised, call>>

\* a loop whose `todo` never becomes false
CommitAndLoop ==
    /\ pc = "Processing"
    /\ count = Len(block)
    /\ offset' = offset + count
    /\ committed' = [sales |-> sales, summary |-> summary]
    /\ pc' = "Fetching"
    /\ hist' = [hist EXCEPT !.done = @ \cup {block[k].id : k \in 1..Len(block)}]
    /\ UNCHANGED <<items, sales, summary, clock, count, block, raised, call>>

\* lines 428-430: todo, offset, commit
Commit ==
    /\ pc = "Processing"
    /\ count = Len(block)
    /\ offset' = offset + count
    /\ committed' = [sales |-> sales, summary |-> summary]
    /\ pc' = IF count = BlockSize THEN "Fetching" ELSE "Done"
    /\ hist' = [hist EXCEPT !.done = @ \cup {block[k].id : k \in 1..Len(block)}]
    /\ UNCHANGED <<items, sales, summary, clock, count, block, raised, call>>

\* the process is terminated from outside during a run: the session and its
\* uncommitted writes are lost
Crash ==
    /\ pc \in {"Fetching", "Processing"}
    /\ pc' = "Idle"
    /\ sales' = committed.sales
    /\ summary' = committed.summary
    /\ block' = <<>>
    /\ UNCHANGED <<items, committed, clock, offset, count, raised, call, hist>>

\* the notes a listing is given when it changes: it is priced anew
UpdateNotes == {NPrice2Chaos, NBo3Exa}

\* between two runs a listing gets another note; its updated_at becomes
\* the time of the change
UpdateListing ==
    /\ Between
    /\ hist.updates < MaxUpdates
    /\ \E i \in DOMAIN items, n \in UpdateNotes :
          /\ n # items[i].note
          /\ items' = [items EXCEPT ![i].note = n, ![i].updated_at = clock + 1]
    /\ clock' = clock + 1
    /\ hist' = [hist EXCEPT !.updates = @ + 1, !.dirty = TRUE]
    /\ UNCHANGED <<sales, summary, committed, pc, offset, count, block, raised, call>>

Next == StartRun \/ Fetch \/ ProcessRow \/ Commit \/ Crash \/ UpdateListing

Spec == Init /\ [][Next]_vars

\* the rows a run that starts with checkpoint cp has to process
Eligible(cp) ==
    {i \in DOMAIN items : Visible(items[i]) /\ items[i].updated_at >= cp}

Times(i, seq) == Cardinality({k \in 1..Len(seq) : seq[k] = i})

\* C3 (as claimed): a run that is not interrupted gives every visible row
\* with item_updated_at >= the checkpoint read at its start to _process_sale
\* exactly once.
C3_EveryEligibleRowOnce ==
    (pc = "Done" /\ ~hist.dirty)
        => \A i \in Eligible(hist.cp0) : Times(i, hist.processed) = 1

\* this run follows a completed run, and no listing changed in between
CleanRerun ==
    hist.runs >= 2 /\ hist.after = "done" /\ ~hist.changed /\ ~hist.dirty

\* C4 (as claimed): a second run with no listing added or changed since the
\* first fetches no row and leaves the sale and summary tables as they were.
C4_SecondRunIdempotent ==
    CleanRerun =>
        /\ hist.fetched = 0
        /\ sales = hist.start.sales
        /\ summary = hist.start.summary

\* this run follows a run that was interrupted after it had committed a
\* block, over the same listing rows
RerunAfterCrash ==
    /\ hist.runs >= 2
    /\ hist.after = "crash"
    /\ ~hist.changed
    /\ ~hist.dirty
    /\ hist.prevDone # {}

\* the tables a run of do_currency_fixer can end with when nothing
\* interrupts it and no call raises: the rows of a block from row i on, and
\* the blocks from offset off on, starting with the tables st
Tables(ss, sm) == [sales |-> ss, summary |-> sm]

RECURSIVE AfterRows(_, _, _, _)
AfterRows(rows, i, st, now) ==
    IF i > Len(rows) THEN {st}
    ELSE UNION {AfterRows(rows, i + 1, Tables(o.sales, o.summary), now) :
                   o \in {x \in process_sale(st.sales, st.summary, rows[i], now) :
                             x.exc = "none"}}

RECURSIVE RunFrom(_, _, _, _)
AfterBlock(tbl, st, off, now, rows) ==
    UNION {IF Len(rows) = BlockSize
           THEN RunFrom(tbl, st2, off + Len(rows), now)
           ELSE {st2} : st2 \in AfterRows(rows, 1, st, now)}

RunFrom(tbl, st, off, now) ==
    AfterBlock(tbl, st, off, now, currency_query(tbl, st.sales, BlockSize, off))

\* C5 (as claimed): the rerun after an interruption gives no row of the
\* committed blocks to _process_sale again, by its end has processed every
\* row the interrupted run had left, and ends with the tables an
\* uninterrupted run over the same listing rows ends with.
C5_RerunResumes ==
    RerunAfterCrash =>
        /\ \A k \in 1..Len(hist.processed) : hist.processed[k] \notin hist.prevDone
        /\ pc = "Done" =>
               /\ \A i \in Eligible(hist.prevCp0) \ hist.prevDone :
                      Times(i, hist.processed) >= 1
               /\ Tables(sales, summary) \in RunFrom(items, hist.prevStart, 0, clock)

\* C6 (as claimed): in the committed tables the sample count of every stored
\* pair (from, to) is the number of sale records with name = from and
\* sale_currency = to.
C6_SummaryCountsMatchSales ==
    \A r \in DOMAIN committed.summary :
        r.count = BagCardinality(PairSales(committed.sales,
                                           r.from_currency, r.to_currency))

\* C16: the committed tables change only when every row of the fetched
\* block has been processed, and then become the session's tables; nothing
\* is uncommitted when a block is fetched; a run that aborts on a raising
\* row commits nothing of its block.
C16_BlockCommitsWhole ==
    [][/\ committed' # committed =>
             /\ pc = "Processing"
             /\ count = Len(block)
             /\ committed' = Tables(sales, summary)
       /\ (pc = "Fetching" /\ pc' = "Processing") =>
             committed = Tables(sales, summary)
       /\ pc' = "Aborted" =>
             /\ committed' = committed
             /\ Tables(sales', summary') = committed]_vars

\* the second row of a block raised after the first had recorded a sale,
\* and the committed tables hold no record of that sale
C16_Witness ==
    /\ pc = "Aborted"
    /\ count = 2
    /\ block[1].note \in {NPrice2Chaos, NBo3Exa}
    /\ ItemSales(committed.sales, block[1].id) = EmptyBag
    /\ sales = committed.sales

\* the steps of the loop seen from its position: a Fetch step is the step
\* from Fetching to Processing, a ProcessRow step the step that adds one to
\* count, and each is enabled exactly when the action is
position == <<pc, count>>
FetchStep == pc = "Fetching" /\ pc' = "Processing" /\ count' = 0
RowStep ==
    /\ pc = "Processing"
    /\ count < Len(block)
    /\ count' = count + 1
    /\ pc' \in {"Processing", "Aborted"}

\* a run keeps running: the interpreter takes the next step of the loop
\* whenever there is one (a crash may still end the run at any point)
SpecLive ==
    /\ Spec
    /\ WF_position(FetchStep)
    /\ WF_position(RowStep)
    /\ WF_vars(Commit)

\* C17: a run that has been started ends; the step after a block of fewer
\* than block_size rows leads to Done and the step after a block of exactly
\* block_size rows leads back to Fetching.
C17_RunTerminates ==
    /\ [][(pc = "Processing" /\ pc' \in {"Fetching", "Done"}) =>
             /\ count = Len(block)
             /\ pc' = "Done" <=> Len(block) < BlockSize
             /\ pc' = "Fetching" <=> Len(block) = BlockSize]_vars
    /\ (pc \in {"Fetching", "Processing"}) ~> Between

\* a run has ended after a full block followed by a shorter one
C17_Witness ==
    /\ pc = "Done"
    /\ offset > BlockSize
    /\ Len(block) < BlockSize
    /\ Len(block) >= 1

\* C18: within a run, across its blocks, no row is given to _process_sale
\* after a row of larger item updated_at (the listings are those of the
\* run: none has changed since).
C18_AscendingAcrossBlocks ==
    ~hist.dirty =>
        \A j, k \in 1..Len(hist.processed) :
            j < k => items[hist.processed[j]].updated_at
                        <= items[hist.processed[k]].updated_at

\* a run has gone past its first block, over rows whose time order is not
\* their key order
C18_Witness ==
    /\ ~hist.dirty
    /\ Len(hist.processed) > BlockSize
    /\ \E j, k \in 1..Len(hist.processed) :
          j < k /\ hist.processed[j] > hist.processed[k]

\* C20: the checkpoint of the committed sale table never goes down, and no
\* step of a run other than the loss of its uncommitted writes lowers the
\* checkpoint the run reads (the stamps of the listings only grow).
C20_CheckpointNeverDecreases ==
    [][/\ get_last_processed_time(committed'.sales)
             >= get_last_processed_time(committed.sales)
       /\ pc' \notin {"Aborted", "Idle"} =>
             get_last_processed_time(sales') >= get_last_processed_time(sales)]_vars

\* a later run has overwritten the record of a changed listing and the
\* checkpoint has moved up from the one it started with
C20_Witness ==
    /\ hist.runs = 2
    /\ hist.cp0 > 0
    /\ call.op = "process_sale"
    /\ call.what = "sale"
    /\ call.existed
    /\ get_last_processed_time(sales) > hist.cp0

-----------------------------------------------------------------------------
(* The sale recorder on its own: _process_sale applied to visible rows *)

NSaleItems == 2

InitSale ==
    /\ items = <<>>
    /\ sales = EmptyBag
    /\ summary = EmptyBag
    /\ committed = [sales |-> EmptyBag, summary |-> EmptyBag]
    /\ clock = 1
    /\ pc = "Idle"
    /\ offset = 0
    /\ count = 0
    /\ block = <<>>
    /\ raised = "none"
    /\ call = NoCall
    /\ hist = <<>>

SaleRows ==
    {r \in {Row(i, n, st, TRUE, t) :
               i \in 1..NSaleItems, n \in RowItemNotes, st \in RowStashNotes,
               t \in {clock}} : Visible(r)}

\* a call of parse_note(note)
ParseNote ==
    \E note \in ItemNotes \cup StashNotes :
        LET p == parse_note(note)
        IN  /\ call' = [op |-> "parse_note", note |-> note,
                        amt |-> p.amt, cur |-> p.cur]
            /\ raised' = p.exc
            /\ UNCHANGED <<items, sales, summary, committed, clock, pc, offset,
                           count, block, hist>>

\* a call of _process_sale(row)
ProcessListing ==
    \E row \in SaleRows :
        \E out \in process_sale(sales, summary, row, clock) :
            /\ sales' = out.sales
            /\ summary' = out.summary
            /\ raised' = out.exc
            /\ call' = [op |-> "process_sale", row |-> row, what |-> out.what,
                        chaos |-> out.chaos,
                        existed |-> \E s \in DOMAIN sales : s.item_id = row.id]
            /\ UNCHANGED <<items, committed, clock, pc, offset, count, block, hist>>

NextSale == ParseNote \/ ProcessListing

SpecSale == InitSale /\ [][NextSale]_vars

BeginsWithMarker(note) == note # NoneNote /\ Len(note) >= 1 /\ note[1] = "~"

\* C7 (as claimed): _process_sale on a visible row of which neither the item
\* note nor the stash note begins with "~" returns without raising and
\* leaves the sale and summary tables as they were.
C7_NoMarkerNoEffect ==
    [][(/\ call'.op = "process_sale"
        /\ Visible(call'.row)
        /\ ~BeginsWithMarker(call'.row.note)
        /\ ~BeginsWithMarker(call'.row.stash))
          => (raised' = "none" /\ sales' = sales /\ summary' = summary)]_vars

\* C8 (as claimed): parse_note on a note whose amount is a fraction with a
\* zero denominator returns (None, None) and does not raise.
C8_ZeroDenominatorIsParseFailure ==
    (call.op = "parse_note" /\ call.note = NZeroDen)
        => (raised = "none" /\ call.amt = None /\ call.cur = NoneStr)

\* C9: after any sequence of _process_sale calls the sale table holds at
\* most one record for each item identity.
C9_OneSalePerItem ==
    \A r \in DOMAIN sales : BagCardinality(ItemSales(sales, r.item_id)) = 1

\* a row of an item that already had a record has been recorded
C9_Witness ==
    /\ call.op = "process_sale"
    /\ call.what = "sale"
    /\ call.existed
    /\ BagCardinality(ItemSales(sales, call.row.id)) = 1
    /\ BagCardinality(sales) >= 2

\* the values the resolver can give a price on the table sm
ResolverValues(sm, p) ==
    {find_value_of(sm, p.cur, p.amt, ord) : ord \in Enumerations(sm, p.cur)}

\* C13: _process_sale on a row whose category does not contain "currency"
\* leaves the summary table unchanged, and when the row has a price the
\* item's one sale record carries that price and the value the resolver
\* gives it.
C13_OnlyCurrencyFeedsStatistics ==
    [][(call'.op = "process_sale" /\ ~IsCurrency(call'.row))
          => /\ summary' = summary
             /\ call'.what = "sale" =>
                   /\ BagCardinality(ItemSales(sales', call'.row.id)) = 1
                   /\ \A r \in DOMAIN ItemSales(sales', call'.row.id) :
                         /\ r.sale_amount = ResolvePrice(call'.row).amt
                         /\ r.sale_currency = ResolvePrice(call'.row).cur
                         /\ r.sale_amount_chaos = call'.chaos
                         /\ r.sale_amount_chaos
                               \in ResolverValues(summary, ResolvePrice(call'.row))]_vars

\* a sale of the armour has been recorded and valued from stored statistics
C13_Witness ==
    /\ call.op = "process_sale"
    /\ ~IsCurrency(call.row)
    /\ call.what = "sale"
    /\ call.chaos # None
    /\ summary # EmptyBag
    /\ \E r \in DOMAIN sales : r.item_id = call.row.id /\ ~r.is_currency

\* the price the precedence rule gives a row from the parses of its item
\* note and its stash note: the item note's when it has one, else the stash
\* note's
ClaimedPrice(it, st) == IF it.amt # None THEN it ELSE st

\* the tables after a call are as the rule says for the price p of the row
WrittenAs(before, after, row, p) ==
    IF p.amt \in {None, RZero}
    THEN after = before
    ELSE /\ ItemSales(after.sales, row.id) # EmptyBag
         /\ \A r \in DOMAIN ItemSales(after.sales, row.id) :
               r.sale_amount = p.amt /\ r.sale_currency = p.cur

\* C19: for a row that passes the marker gate and whose two notes
\* parse_note returns for, the record written carries the item note's price
\* when it has one and else the stash note's; when that price is absent or
\* zero the call changes neither table.
C19_ItemPriceBeforeStashPrice ==
    [][(call'.op = "process_sale" /\ Gate(call'.row) = "pass") =>
          \A it \in {parse_note(call'.row.note)},
             st \in {parse_note(call'.row.stash)} :
              (it.exc = "none" /\ st.exc = "none") =>
                  WrittenAs(Tables(sales, summary), Tables(sales', summary'),
                            call'.row, ClaimedPrice(it, st))]_vars

\* an item note priced at zero under a stash note with a price: nothing is
\* written, with a record of another row already in the table
C19_Witness ==
    /\ call.op = "process_sale"
    /\ call.row.note = NZeroPrice
    /\ call.row.stash = NBo3Exa
    /\ call.what = "noprice"
    /\ sales # EmptyBag
    /\ ItemSales(sales, call.row.id) = EmptyBag

-----------------------------------------------------------------------------
(* The resolver on its own: _find_value_of applied to stored statistics *)

\* the names the resolver is asked about and the pairs that can matter to
\* them: X -> Chaos, X -> A, X -> B, X -> X, A -> Chaos, B -> Chaos,
\* Chaos -> X, each with its own mean

ResolverPairs ==
    << <<Exalted, ChaosOrb, Rat(50, 1)>>,
       <<Exalted, Alchemy, Rat(100, 1)>>,
       <<Exalted, Divine, Rat(7, 2)>>,
       <<Exalted, Exalted, Rat(11, 10)>>,
       <<Alchemy, ChaosOrb, Rat(1, 3)>>,
       <<Divine, ChaosOrb, Rat(13, 1)>>,
       <<ChaosOrb, Exalted, Rat(1, 60)>> >>

Prices == {Rat(3, 1), Rat(1, 2)}

\* a table holds each pair at most once, with a count of 1..MaxCount
\* (0: the pair is not in the table)
ResolverTables ==
    {SetToBag({[from_currency |-> ResolverPairs[i][1],
       to_currency |-> ResolverPairs[i][2],
       count |-> c[i],
       mean |-> ResolverPairs[i][3],
       variance |-> RZero] : i \in {k \in DOMAIN ResolverPairs : c[k] > 0}})
     : c \in [DOMAIN ResolverPairs -> 0..MaxCount]}

InitResolver ==
    /\ items = <<>>
    /\ sales = EmptyBag
    /\ summary \in ResolverTables
    /\ committed = [sales |-> EmptyBag, summary |-> summary]
    /\ clock = 1
    /\ pc = "Idle"
    /\ offset = 0
    /\ count = 0
    /\ block = <<>>
    /\ raised = "none"
    /\ call = NoCall
    /\ hist = <<>>

\* a call of _find_value_of(name, price).  The call reads the table and
\* changes nothing, so a second call would see what the first one saw: a
\* behaviour makes one call.
FindValue ==
    \E name \in {Exalted, ChaosOrb}, price \in Prices :
        \E ord \in Enumerations(summary, name) :
            /\ call = NoCall
            /\ call' = [op |-> "find_value_of", name |-> name, price |-> price,
                        ord |-> ord,
                        result |-> find_value_of(summary, name, price, ord)]
            /\ UNCHANGED <<items, sales, summary, committed, clock, pc, offset,
                           count, block, raised, hist>>

NextResolver == FindValue

SpecResolver == InitResolver /\ [][NextResolver]_vars

Resolved == call.op = "find_value_of" /\ call.name # ChaosOrb

\* C1 (as claimed): when the direct pair name -> Chaos Orb is the first pair
\* enumerated for name, the resolver returns mean(name -> Chaos Orb) * amount.
C1_DirectFirstAccepted ==
    (/\ Resolved
     /\ Len(call.ord) >= 1
     /\ call.ord[1].to_currency = ChaosOrb)
        => call.result = RMul(call.ord[1].mean, call.price)

\* C2 (as claimed): with no forward pair from name and the reverse pair
\* Chaos Orb -> name of mean m, the resolver returns amount / m.
C2_ReverseScalesWithAmount ==
    (/\ Resolved
     /\ Len(call.ord) = 0
     /\ SummaryRows(summary, ChaosOrb, call.name) # EmptyBag)
        => call.result =
              RDiv(call.price, TheRow(SummaryRows(summary, ChaosOrb, call.name)).mean)

\* the two-hop candidates of a call: the positions of the enumeration whose
\* target B has a pair B -> Chaos Orb, and the score of each
HopOf(i) == TheRow(SummaryRows(summary, call.ord[i].to_currency, ChaosOrb))
Candidates ==
    {i \in 1..Len(call.ord) :
        /\ call.ord[i].to_currency # ChaosOrb
        /\ SummaryRows(summary, call.ord[i].to_currency, ChaosOrb) # EmptyBag}
Score(i) == Min(call.ord[i].count, HopOf(i).count)
BestHop ==
    CHOOSE i \in Candidates :
        /\ \A k \in Candidates : Score(k) <= Score(i)
        /\ \A k \in Candidates : Score(k) = Score(i) => i <= k

\* C10: with no direct pair and at least one intermediate B, the resolver
\* returns amount * mean(name -> B*) * mean(B* -> Chaos Orb) for the B* of the
\* best score min(count(name -> B), count(B -> Chaos Orb)), the first such B
\* in the enumeration order among equal scores.
C10_BestTwoHop ==
    (/\ Resolved
     /\ SummaryRows(summary, call.name, ChaosOrb) = EmptyBag
     /\ Candidates # {})
        => call.result =
              RMul(call.price, RMul(call.ord[BestHop].mean, HopOf(BestHop).mean))

\* two intermediates of equal best score, the later one not chosen
C10_Witness ==
    /\ Resolved
    /\ SummaryRows(summary, call.name, ChaosOrb) = EmptyBag
    /\ \E i, k \in Candidates :
          /\ i < k
          /\ Score(i) = Score(k)
          /\ BestHop = i
          /\ call.result # None
          /\ call.result # RMul(call.price, RMul(call.ord[k].mean, HopOf(k).mean))

\* the values the forward paths of a call give: the direct pair's and each
\* two-hop candidate's
ForwardValues ==
    {RMul(r.mean, call.price) :
        r \in DOMAIN SummaryRows(summary, call.name, ChaosOrb)}
    \cup {RMul(call.price, RMul(call.ord[i].mean, HopOf(i).mean)) :
              i \in Candidates}

\* C11 (as claimed): whenever a forward path name -> Chaos Orb or
\* name -> B -> Chaos Orb is stored, the resolver's result is the value of a
\* forward path, never the reverse pair's value and never absent.
C11_ForwardBeforeReverse ==
    (Resolved /\ ForwardValues # {}) => call.result \in ForwardValues

\* C14: _find_value_of("Chaos Orb", x) returns x whatever statistics are
\* stored, and the stored tables are as they were before the call.
C14_CanonicalUnitIsIdentity ==
    (call.op = "find_value_of" /\ call.name = ChaosOrb)
        => /\ call.result = call.price
           /\ summary = committed.summary
           /\ sales = committed.sales

\* the unit asked about with pairs from and to Chaos Orb in the table
C14_Witness ==
    /\ call.op = "find_value_of"
    /\ call.name = ChaosOrb
    /\ call.result = call.price
    /\ Len(call.ord) >= 1
    /\ SummaryRows(summary, Exalted, ChaosOrb) # EmptyBag

-----------------------------------------------------------------------------
(* The aggregator: several items of one currency sold over time *)

\* the items are all Exalted Orbs; item stamps (written by the collector)
\* and the recorder's own clock (time.time()) both run over 1..MaxTime, and
\* nothing in the code relates the two
NPairItems == 2
MaxTime == 3

PairIds == {3 * k + 1 : k \in 0..(NPairItems - 1)}
PairNotes == {NPrice2Chaos, NPrice6Chaos}

InitSummary ==
    /\ items = <<>>
    /\ sales = EmptyBag
    /\ summary = EmptyBag
    /\ committed = [sales |-> EmptyBag, summary |-> EmptyBag]
    /\ clock = 1
    /\ pc = "Idle"
    /\ offset = 0
    /\ count = 0
    /\ block = <<>>
    /\ raised = "none"
    /\ call = NoCall
    /\ hist = <<>>

\* time.time() moves on
TickSummary ==
    /\ clock < MaxTime
    /\ clock' = clock + 1
    /\ UNCHANGED <<items, sales, summary, committed, pc, offset, count, block,
                   raised, call, hist>>

\* the stamp of the record an item has, 1 when it has none: the stamp of a
\* listing never goes back
LastStamp(ss, id) ==
    MaxOf({s.item_updated_at : s \in DOMAIN ItemSales(ss, id)} \cup {1})

\* a call of _process_sale(row) on a priced row of one of the items
ObserveSale ==
    \E id \in PairIds, note \in PairNotes :
        \E t \in LastStamp(sales, id)..MaxTime :
            \E out \in process_sale(sales, summary,
                                    Row(id, note, NoneNote, TRUE, t), clock) :
                /\ sales' = out.sales
                /\ summary' = out.summary
                /\ raised' = out.exc
                /\ call' = [op |-> "process_sale",
                            row |-> Row(id, note, NoneNote, TRUE, t),
                            what |-> out.what, chaos |-> out.chaos,
                            existed |-> \E s \in DOMAIN sales : s.item_id = id]
                /\ UNCHANGED <<items, committed, clock, pc, offset, count,
                               block, hist>>

NextSummary == TickSummary \/ ObserveSale

SpecSummary == InitSummary /\ [][NextSummary]_vars

\* the sale of a currency item has just been recorded; the rows of its pair
\* and the statistic stored for it
Aggregated ==
    /\ call.op = "process_sale"
    /\ call.what = "sale"
    /\ IsCurrency(call.row)
CallPair ==
    PairSales(sales, SaleName(call.row),
              TheRow(ItemSales(sales, call.row.id)).sale_currency)
CallStat ==
    TheRow(SummaryRows(summary, SaleName(call.row),
                       TheRow(ItemSales(sales, call.row.id)).sale_currency))

\* C12 (as claimed): when every sale of the pair has item_updated_at equal
\* to the reference time, the stored mean is the arithmetic mean of the sale
\* amounts, whatever the records' updated_at are.
C12_UniformAgeGivesPlainMean ==
    (/\ Aggregated
     /\ \A s \in DOMAIN CallPair : s.item_updated_at = call.row.updated_at)
        => CallStat.mean =
              RDiv(RSum(CallPair, [s \in DOMAIN CallPair |-> s.sale_amount]),
                   RInt(BagCardinality(CallPair)))

\* the weight as the claim states it: the age is measured from the sale's
\* item_updated_at
ClaimedWeight(sale, referenceTime) ==
    RMax(ROne, RDiv(RInt(unit),
                    RInt(IF referenceTime - sale.item_updated_at < 1 THEN 1
                         ELSE referenceTime - sale.item_updated_at)))

\* C15 (as claimed): the weight of every sale contributing to the statistic
\* of the pair is max(1, 86400 / max(1, referenceTime - item_updated_at)).
C15_WeightFromItemStamp ==
    Aggregated =>
        \A s \in DOMAIN CallPair :
            Weight(s, call.row.updated_at) = ClaimedWeight(s, call.row.updated_at)

====
